---- MODULE Spec2Model ----
(***************************************************************************)
(* Model of the two units of the repository:                               *)
(*   - converttpu.py: the call-site patcher that inserts `.contiguous()`   *)
(*     after every `.view(...)` / `.reshape(...)` call and then renames    *)
(*     `.view(` to `.reshape(`;                                            *)
(*   - tensorboardX/writer.py: the SummaryWriter facade over FileWriter    *)
(*     and DummyFileWriter.                                                *)
(* A text is a sequence of one-character strings; offsets are 0-based as   *)
(* in Python, so the character at offset i is text[i + 1].                 *)
(***************************************************************************)
EXTENDS Integers, Sequences, FiniteSets, TLC

\* ------------------------------------------------------------------------
\* Bounds of the model
\* ------------------------------------------------------------------------

\* a source text is the concatenation of at most MaxFrags fragments
\* (4 fragments reach two calls, a nested call and arguments nested 3 deep)
MaxFrags == 4

\* the script is run at most MaxRuns times over the same file
MaxRuns == 2

\* a SummaryWriter receives at most MaxOps calls after its construction
MaxOps == 4

\* one run of the script finds at most MaxFiles files in the tree
MaxFiles == 2

\* ------------------------------------------------------------------------
\* converttpu.py : literals
\* ------------------------------------------------------------------------

\* insert = '.contiguous()'
insert == <<".", "c", "o", "n", "t", "i", "g", "u", "o", "u", "s", "(", ")">>

\* prefixes = ['view', 'reshape']
prefixes == << <<"v", "i", "e", "w">>, <<"r", "e", "s", "h", "a", "p", "e">> >>

\* the value of a name that no statement has bound yet (the loop variable k
\* before the first iteration of any `for k, c in enumerate(...)`)
Unbound == -1

\* the outcome of str.index when the substring is not found (ValueError)
NotFound == -1

\* ------------------------------------------------------------------------
\* Python str operations, on sequences of characters with 0-based offsets
\* ------------------------------------------------------------------------

MinOf(S) == CHOOSE m \in S : \A n \in S : m <= n

\* text[a:b] for 0 <= a, with both ends clamped to the length of the text
Slice(text, a, b) ==
    LET hi == IF b > Len(text) THEN Len(text) ELSE b
    IN  IF a >= hi THEN <<>> ELSE SubSeq(text, a + 1, hi)

\* text[:n]
SliceTo(text, n) == Slice(text, 0, n)

\* text[n:]
SliceFrom(text, n) == Slice(text, n, Len(text))

\* sub occurs in text at offset i
OccursAt(text, sub, i) ==
    /\ i >= 0
    /\ i + Len(sub) <= Len(text)
    /\ \A n \in 1..Len(sub) : text[i + n] = sub[n]

\* text.index(sub, start): the lowest offset >= start at which sub occurs;
\* NotFound stands for the ValueError
StrIndex(text, sub, start) ==
    LET hits == {i \in start .. (Len(text) - Len(sub)) : OccursAt(text, sub, i)}
    IN  IF hits = {} THEN NotFound ELSE MinOf(hits)

\* text.count(sub): the number of non-overlapping occurrences, left to right
RECURSIVE CountFrom(_, _, _)
CountFrom(text, sub, start) ==
    LET j == StrIndex(text, sub, start)
    IN  IF j = NotFound THEN 0 ELSE 1 + CountFrom(text, sub, j + Len(sub))

StrCount(text, sub) == CountFrom(text, sub, 0)

\* text.replace(old, new): every non-overlapping occurrence, left to right
RECURSIVE ReplaceFrom(_, _, _, _)
ReplaceFrom(text, old, new, start) ==
    LET j == StrIndex(text, old, start)
    IN  IF j = NotFound
        THEN SliceFrom(text, start)
        ELSE Slice(text, start, j) \o new
             \o ReplaceFrom(text, old, new, j + Len(old))

StrReplace(text, old, new) == ReplaceFrom(text, old, new, 0)

\* ------------------------------------------------------------------------
\* converttpu.py : the pieces of the loop body
\* ------------------------------------------------------------------------

\* (mutant) the pivot without the leading dot
PivotNoDot(prefix) == prefix \o <<"(">>

\* pivot = '.'+prefix+'('
Pivot(prefix) == <<".">> \o prefix \o <<"(">>

\* (mutant) the search resumes at the pivot found last, not after it
NextOccurrenceAgain(text, pivot, subject) ==
    StrIndex(text, pivot, IF subject = 0 THEN 0 ELSE subject - Len(pivot))

\* text.index(pivot, subject): the search for the next call resumes at
\* subject, the offset just after the opening parenthesis found last
NextOccurrence(text, pivot, subject) == StrIndex(text, pivot, subject)

\* (mutant) the scan stops at the first close-parenthesis, whatever the depth
RECURSIVE ScanFirstClose(_, _, _, _)
ScanFirstClose(text, subject, j, cnt) ==
    IF text[subject + j + 1] = ")" THEN j
    ELSE IF subject + j + 1 >= Len(text) THEN j
    ELSE ScanFirstClose(text, subject, j + 1, cnt)

\* the depth scan: `for k, c in enumerate(text[subject:])` with cnt = 1 on
\* entry; the value of k when the loop is left, by break or by exhaustion
RECURSIVE ScanStep(_, _, _, _)
ScanStep(text, subject, j, cnt) ==
    LET c    == text[subject + j + 1]
        cnt1 == IF c = "(" THEN cnt + 1 ELSE cnt
        cnt2 == IF c = ")" THEN cnt1 - 1 ELSE cnt1
    IN  IF cnt2 = 0 THEN j
        ELSE IF subject + j + 1 >= Len(text) THEN j
        ELSE ScanStep(text, subject, j + 1, cnt2)

\* an empty text[subject:] runs no iteration and leaves k as it was (kOld)
DepthScan(text, subject, kOld) ==
    IF subject >= Len(text) THEN kOld ELSE ScanStep(text, subject, 0, 1)

\* try: tmpidx = text.index(insert, insert_idx) / except ValueError: -1
MarkerProbe(text, insert_idx) == StrIndex(text, insert, insert_idx)

\* (mutant) the marker goes in one character early, before the `)`
InsertMarkerEarly(text, insert_idx) ==
    SliceTo(text, insert_idx - 1) \o insert \o SliceFrom(text, insert_idx - 1)

\* (mutant) the marker overwrites the character at insert_idx
InsertMarkerOver(text, insert_idx) ==
    SliceTo(text, insert_idx) \o insert \o SliceFrom(text, insert_idx + 1)

\* text = text[:insert_idx] + insert + text[insert_idx:]
InsertMarker(text, insert_idx) ==
    SliceTo(text, insert_idx) \o insert \o SliceFrom(text, insert_idx)

\* (mutant) only the first `.view(` is renamed
FinalReplaceFirst(text) ==
    LET old == <<".">> \o prefixes[1] \o <<"(">>
        new == <<".">> \o prefixes[2] \o <<"(">>
        j   == StrIndex(text, old, 0)
    IN  IF j = NotFound THEN text
        ELSE SliceTo(text, j) \o new \o SliceFrom(text, j + Len(old))

\* text = text.replace(*['.'+_+'(' for _ in prefixes])
FinalReplace(text) ==
    StrReplace(text, <<".">> \o prefixes[1] \o <<"(">>,
                     <<".">> \o prefixes[2] \o <<"(">>)

\* (mutant) the final replace is made only when a marker was inserted
RenameStepIfRep(text, rep) == IF rep THEN FinalReplace(text) ELSE text

\* line 42 is not under any `if`: the value of rep is not consulted
RenameStep(text, rep) == FinalReplace(text)

\* (mutant) the file is opened for reading in a mode that truncates it
OpenReadTruncates(content) == <<>>

\* open(path, 'r'): the content of the file once it is open
OpenRead(content) == content

\* open(path, 'w'): the content of the file once it is open
OpenWrite(content) == <<>>

\* ------------------------------------------------------------------------
\* Source texts fed to the patcher
\* ------------------------------------------------------------------------

Fragments ==
    { <<".", "v", "i", "e", "w", "(">>,
      <<".", "r", "e", "s", "h", "a", "p", "e", "(">>,
      <<"(">>, <<")">>, <<"(", "(", ")">>, <<"x">>,
      insert,                           \* .contiguous()
      <<"p", "r", "e", "v", "i", "e", "w", "(">> }   \* preview(

RECURSIVE Concat(_)
Concat(fs) == IF fs = <<>> THEN <<>> ELSE Head(fs) \o Concat(Tail(fs))

Texts == { Concat(fs) : fs \in UNION { [1..n -> Fragments] : n \in 0..MaxFrags } }

\* the contents of the files of a tree with several files
FileTexts ==
    { Concat(fs) : fs \in
        { << <<"x">> >>,
          << Pivot(prefixes[1]) >>,
          << Pivot(prefixes[1]), <<")">> >>,
          << Pivot(prefixes[2]), <<"(", "(", ")">>, <<")">> >>,
          << Pivot(prefixes[2]), <<"x">>, <<")">>, Pivot(prefixes[1]) >> } }

\* ------------------------------------------------------------------------
\* State
\* ------------------------------------------------------------------------

VARIABLES
    \* converttpu.py
    disk,       \* the file on disk: its content
    pc,         \* position of the script in the loop body
    text,       \* text
    rep,        \* rep
    pfx,        \* index into prefixes of the `for prefix` loop
    subject,    \* subject
    amnt,       \* amnt
    i,          \* i of `for i in range(amnt)`: iterations done
    k,          \* k, which lives on after each scan
    err,        \* the exception that ended the script, or "none"
    orig,       \* history: the text as read by this run
    visited,    \* history: [p, at] for every pivot found by this run
    marks,      \* history: insert_idx of every insertion made by this run
    last,       \* history: the last iteration of the occurrence loop
    outs,       \* history: the text written by each completed run
    later       \* the files of the tree that rglob has yet to yield

pvars == <<disk, pc, text, rep, pfx, subject, amnt, i, k, err, orig, visited,
           marks, last, outs, later>>

NoIteration == [before |-> <<>>, open |-> -1, idx |-> -1, ins |-> FALSE]

VARIABLES
    \* tensorboardX/writer.py : one SummaryWriter and the writers it made
    write_to_disk,  \* self._write_to_disk
    purge_step,     \* self.purge_step
    kwargs,         \* self.kwargs: the keys it holds
    file_writer,    \* self.file_writer: None or a writer
    all_writers,    \* self.all_writers: None or a dict logdir -> writer
    scalar_dict,    \* self.scalar_dict
    writers,        \* every FileWriter / DummyFileWriter object made so far
    raised,         \* the exception the last call raised, or "none"
    now,            \* time.time(); also the number of calls made
    artifacts,      \* the directories and files made for embeddings
    json_file,      \* the file export_scalars_to_json wrote last, or None
    lastOp,         \* history: the last call, its arguments, the state before
    recorded,       \* history: [key, entry] for every scalar of add_scalars
    exports         \* history: Len(recorded) at each completed export

wvars == <<write_to_disk, purge_step, kwargs, file_writer, all_writers,
           scalar_dict, writers, raised, now, artifacts, json_file, lastOp,
           recorded, exports>>

vars == <<pvars, wvars>>

\* ------------------------------------------------------------------------
\* converttpu.py : the script
\* ------------------------------------------------------------------------

\* the state before the loop body runs on the file
PatchInit ==
    /\ disk \in Texts
    /\ pc = "open"
    /\ text = <<>>
    /\ rep = FALSE
    /\ pfx = 0
    /\ subject = 0
    /\ amnt = 0
    /\ i = 0
    /\ k = Unbound
    /\ err = "none"
    /\ orig = <<>>
    /\ visited = <<>>
    /\ marks = <<>>
    /\ last = NoIteration
    /\ outs = <<>>
    /\ later = <<>>

\* rep = False ... text = f.read()
ReadFile ==
    /\ pc = "open"
    /\ UNCHANGED <<wvars, later>>
    /\ disk' = OpenRead(disk)
    /\ text' = disk'
    /\ orig' = disk
    /\ rep' = FALSE
    /\ pfx' = 1
    /\ marks' = <<>>
    /\ visited' = <<>>
    /\ last' = NoIteration
    /\ pc' = "prefix"
    /\ UNCHANGED <<subject, amnt, i, k, err, outs>>

\* open(path, 'r') or f.read() raises (OSError, UnicodeDecodeError): the
\* script ends, the file is as it was
ReadFails ==
    /\ pc = "open"
    /\ UNCHANGED <<wvars, later>>
    /\ orig' = disk
    /\ err' = "ReadError"
    /\ pc' = "ioerror"
    /\ UNCHANGED <<disk, text, rep, pfx, subject, amnt, i, k, visited, marks,
                   last, outs>>

\* for prefix in prefixes: pivot, subject = 0, amnt = text.count(pivot)
BeginPrefix ==
    /\ pc = "prefix"
    /\ UNCHANGED <<wvars, later>>
    /\ pfx <= Len(prefixes)
    /\ subject' = 0
    /\ amnt' = StrCount(text, Pivot(prefixes[pfx]))
    /\ i' = 0
    /\ pc' = "occ"
    /\ UNCHANGED <<disk, text, rep, pfx, k, err, orig, visited, marks, last, outs>>

\* one iteration of `for i in range(amnt)`
PatchOccurrence ==
    /\ pc = "occ"
    /\ UNCHANGED <<wvars, later>>
    /\ i < amnt
    /\ LET pivot == Pivot(prefixes[pfx])
           found == NextOccurrence(text, pivot, subject)
           subj  == found + Len(pivot)
           kNew  == DepthScan(text, subj, k)
           insert_idx == subj + kNew + 1
           tmpidx == MarkerProbe(text, insert_idx)
       IN  IF found = NotFound
           THEN \* text.index(pivot, subject) raises ValueError
                /\ pc' = "crashed"
                /\ err' = "ValueError"
                /\ UNCHANGED <<disk, text, rep, pfx, subject, amnt, i, k,
                               orig, visited, marks, last, outs>>
           ELSE IF kNew = Unbound
           THEN \* no iteration of the scan has ever bound k: NameError
                /\ pc' = "crashed"
                /\ err' = "NameError"
                /\ subject' = subj
                /\ visited' = Append(visited, [p |-> pfx, at |-> found])
                /\ UNCHANGED <<disk, text, rep, pfx, amnt, i, k, orig, marks,
                               last, outs>>
           ELSE /\ subject' = subj
                /\ k' = kNew
                /\ visited' = Append(visited, [p |-> pfx, at |-> found])
                /\ i' = i + 1
                /\ last' = [before |-> text, open |-> subj - 1,
                            idx |-> insert_idx, ins |-> (tmpidx # insert_idx)]
                /\ IF tmpidx # insert_idx
                   THEN /\ text' = InsertMarker(text, insert_idx)
                        /\ rep' = TRUE
                        /\ marks' = Append(marks, insert_idx)
                   ELSE UNCHANGED <<text, rep, marks>>
                /\ UNCHANGED <<disk, pc, pfx, amnt, err, orig, outs>>

\* range(amnt) is exhausted: the next prefix, or past the last one
EndPrefix ==
    /\ pc = "occ"
    /\ UNCHANGED <<wvars, later>>
    /\ i >= amnt
    /\ IF pfx < Len(prefixes)
       THEN /\ pfx' = pfx + 1
            /\ pc' = "prefix"
       ELSE /\ pc' = "replace"
            /\ UNCHANGED pfx
    /\ UNCHANGED <<disk, text, rep, subject, amnt, i, k, err, orig, visited,
                   marks, last, outs>>

\* text = text.replace('.view(', '.reshape(')
Rename ==
    /\ pc = "replace"
    /\ UNCHANGED <<wvars, later>>
    /\ text' = RenameStep(text, rep)
    /\ pc' = "write"
    /\ UNCHANGED <<disk, rep, pfx, subject, amnt, i, k, err, orig, visited,
                   marks, last, outs>>

\* with open(path, 'w') as f: f.write(text)
WriteFile ==
    /\ pc = "write"
    /\ UNCHANGED <<wvars, later>>
    /\ disk' = OpenWrite(disk) \o text
    /\ outs' = Append(outs, text)
    /\ pc' = "done"
    /\ UNCHANGED <<text, rep, pfx, subject, amnt, i, k, err, orig, visited,
                   marks, last>>

\* the write step raises OSError: open(path, 'w') fails and the file is as
\* it was, or the file is open, hence truncated, and holds the part of the
\* text that reached it
WriteFails ==
    /\ pc = "write"
    /\ UNCHANGED <<wvars, later>>
    /\ \/ disk' = disk
       \/ \E n \in {0, Len(text) \div 2} : disk' = OpenWrite(disk) \o SliceTo(text, n)
    /\ err' = "WriteError"
    /\ pc' = "ioerror"
    /\ UNCHANGED <<text, rep, pfx, subject, amnt, i, k, orig, visited, marks,
                   last, outs>>

\* the script is started again over the same tree: a new process, in which
\* no name is bound yet
RunAgain ==
    /\ pc = "done"
    /\ UNCHANGED <<wvars, later>>
    /\ Len(outs) < MaxRuns
    /\ pc' = "open"
    /\ k' = Unbound
    /\ UNCHANGED <<disk, text, rep, pfx, subject, amnt, i, err, orig, visited,
                   marks, last, outs>>

\* the state before the loop body runs on the first file of a tree
FilesInit ==
    \E n \in 1..MaxFiles : \E fs \in [1..n -> FileTexts] :
        /\ disk = fs[1]
        /\ later = Tail(fs)
        /\ pc = "open"
        /\ text = <<>>
        /\ rep = FALSE
        /\ pfx = 0
        /\ subject = 0
        /\ amnt = 0
        /\ i = 0
        /\ k = Unbound
        /\ err = "none"
        /\ orig = <<>>
        /\ visited = <<>>
        /\ marks = <<>>
        /\ last = NoIteration
        /\ outs = <<>>

\* for path in Path('./').rglob(...): the next file, in the same process;
\* the names the body has bound stay bound
NextFile ==
    /\ pc = "done"
    /\ later # <<>>
    /\ disk' = Head(later)
    /\ later' = Tail(later)
    /\ pc' = "open"
    /\ UNCHANGED <<text, rep, pfx, subject, amnt, i, k, err, orig, visited,
                   marks, last, outs>>
    /\ UNCHANGED wvars

\* ------------------------------------------------------------------------
\* tensorboardX/writer.py : values
\* ------------------------------------------------------------------------

\* an optional value: None, or Some(v); Val gives v back
None == <<>>

Some(v) == <<v>>

Val(o) == o[1]

\* a dict is the sequence of its items [key, val] in insertion order
DictHas(d, key) == \E n \in 1..Len(d) : d[n].key = key

DictGet(d, key) == d[CHOOSE n \in 1..Len(d) : d[n].key = key].val

DictPut(d, key, val) ==
    IF DictHas(d, key)
    THEN [n \in 1..Len(d) |-> IF d[n].key = key THEN [key |-> key, val |-> val] ELSE d[n]]
    ELSE Append(d, [key |-> key, val |-> val])

DictValues(d) == [n \in 1..Len(d) |-> d[n].val]

\* the logdir the SummaryWriter is constructed with, as path components
RunDir == <<"runs">>

\* the arguments the calls are made with
Tags == {"a", "b"}

TagDicts == { <<"a">>, <<"a", "b">> }       \* the keys of tag_scalar_dict

StepArgs == { None, Some(0) }               \* global_step

\* the SummaryWriter and the objects it made, as one value
Self ==
    [logdir |-> RunDir,
     write_to_disk |-> write_to_disk, purge_step |-> purge_step,
     kwargs |-> kwargs, file_writer |-> file_writer,
     all_writers |-> all_writers, scalar_dict |-> scalar_dict,
     writers |-> writers, raised |-> raised, now |-> now,
     artifacts |-> artifacts, json_file |-> json_file]

\* ------------------------------------------------------------------------
\* tensorboardX/writer.py : DummyFileWriter and FileWriter
\* ------------------------------------------------------------------------

\* DummyFileWriter(logdir) / FileWriter(logdir, ...): a new object, made
\* by the SummaryWriter sw (by records the logdir of its maker); the
\* FileWriter opens an event file through its EventFileWriter
NewWriter(sw, kind, dir) ==
    [sw EXCEPT !.writers = Append(@,
        [kind |-> kind, logdir |-> dir, by |-> sw.logdir,
         calls |-> <<>>, events |-> <<>>, closed |-> FALSE])]

\* the object made last
Newest(sw) == Len(sw.writers)

\* Event(summary=...), Event(step=..., file_version=...): step is 0 unless set
Event(what, step) == [what |-> what, step |-> step, wall_time |-> 0]

\* a step argument is a number given in halves, so that 3 stands for 1.5;
\* int(x) drops the fraction, towards zero
IntOf(x) == IF x >= 0 THEN x \div 2 ELSE -((-x) \div 2)

\* the step argument of a whole number n
Whole(n) == Some(2 * n)

\* (mutant) add_event tests `if step:`, which a step of 0 does not pass
Writer_add_eventIfStep(sw, id, event, step, walltime) ==
    LET w == sw.writers[id]
        e == [event EXCEPT
                !.wall_time = IF walltime = None THEN sw.now ELSE Val(walltime),
                !.step = IF step # None /\ Val(step) # 0 THEN IntOf(Val(step)) ELSE @]
    IN  [sw EXCEPT !.writers[id] =
            IF w.kind = "DummyFileWriter"
            THEN [w EXCEPT !.calls = Append(@, "add_event")]
            ELSE [w EXCEPT !.calls = Append(@, "add_event"),
                           !.events = Append(@, e)]]

\* add_event(event, step, walltime) of either kind of writer
Writer_add_event(sw, id, event, step, walltime) ==
    LET w == sw.writers[id]
        e == [event EXCEPT
                !.wall_time = IF walltime = None THEN sw.now ELSE Val(walltime),
                !.step = IF step # None THEN IntOf(Val(step)) ELSE @]
    IN  [sw EXCEPT !.writers[id] =
            IF w.kind = "DummyFileWriter"
            THEN [w EXCEPT !.calls = Append(@, "add_event")]
            ELSE [w EXCEPT !.calls = Append(@, "add_event"),
                           !.events = Append(@, e)]]

\* add_summary(summary, global_step, walltime)
Writer_add_summary(sw, id, summary, global_step, walltime) ==
    Writer_add_event(sw, id, Event(summary, 0), global_step, walltime)

\* flush()
Writer_flush(sw, id) ==
    [sw EXCEPT !.writers[id].calls = Append(@, "flush")]

\* close()
Writer_close(sw, id) ==
    [sw EXCEPT !.writers[id].calls = Append(@, "close"),
               !.writers[id].closed = TRUE]

\* ------------------------------------------------------------------------
\* tensorboardX/writer.py : SummaryWriter
\* ------------------------------------------------------------------------

\* _get_file_writer(): the state after the call; the writer it returns is
\* the file_writer of that state
GetFileWriter(sw) ==
    IF ~sw.write_to_disk
    THEN LET s1 == NewWriter(sw, "DummyFileWriter", sw.logdir)
         IN  [s1 EXCEPT !.file_writer = Some(Newest(s1)),
                        !.all_writers =
                            Some(<<[key |-> sw.logdir, val |-> Newest(s1)]>>)]
    ELSE IF sw.all_writers = None \/ sw.file_writer = None
    THEN LET s1 == NewWriter(sw, "FileWriter", sw.logdir)
             id == Newest(s1)
             s2 == IF "purge_step" \in sw.kwargs
                   THEN LET most_recent_step == Some(Val(sw.purge_step))
                            p1 == [s1 EXCEPT !.kwargs = @ \ {"purge_step"}]
                            p2 == Writer_add_event(p1, id,
                                      Event("file_version", Val(most_recent_step)),
                                      None, None)
                        IN  Writer_add_event(p2, id,
                                      Event("session_log", Val(most_recent_step)),
                                      None, None)
                   ELSE s1
         IN  [s2 EXCEPT !.file_writer = Some(id),
                        !.all_writers = Some(<<[key |-> sw.logdir, val |-> id]>>)]
    ELSE sw

\* (mutant) close() forgets all_writers only, and keeps file_writer
SummaryWriter_closeKeepsFileWriter(sw) ==
    IF sw.all_writers = None THEN sw
    ELSE LET RECURSIVE CloseAll(_, _)
             CloseAll(s, ids) ==
                 IF ids = <<>> THEN s
                 ELSE CloseAll(Writer_close(Writer_flush(s, Head(ids)), Head(ids)),
                               Tail(ids))
             s1 == CloseAll(sw, DictValues(Val(sw.all_writers)))
         IN  [s1 EXCEPT !.all_writers = None]

\* close()
SummaryWriter_close(sw) ==
    IF sw.all_writers = None THEN sw
    ELSE LET RECURSIVE CloseAll(_, _)
             CloseAll(s, ids) ==
                 IF ids = <<>> THEN s
                 ELSE CloseAll(Writer_close(Writer_flush(s, Head(ids)), Head(ids)),
                               Tail(ids))
             s1 == CloseAll(sw, DictValues(Val(sw.all_writers)))
         IN  [s1 EXCEPT !.file_writer = None, !.all_writers = None]

\* (mutant) flush() obtains the default writer first, as the add_* calls do
SummaryWriter_flushReopens(sw) ==
    LET s1 == GetFileWriter(sw)
    IN  Writer_flush(s1, Val(s1.file_writer))

\* flush()
SummaryWriter_flush(sw) ==
    IF sw.all_writers = None THEN sw
    ELSE LET RECURSIVE FlushAll(_, _)
             FlushAll(s, ids) ==
                 IF ids = <<>> THEN s
                 ELSE FlushAll(Writer_flush(s, Head(ids)), Tail(ids))
         IN  FlushAll(sw, DictValues(Val(sw.all_writers)))

\* __append_to_scalar_dict(tag, scalar_value, global_step, timestamp)
AppendToScalarDict(sw, tag, scalar_value, global_step, timestamp) ==
    LET d0 == IF DictHas(sw.scalar_dict, tag) THEN sw.scalar_dict
              ELSE DictPut(sw.scalar_dict, tag, <<>>)
    IN  [sw EXCEPT !.scalar_dict =
            DictPut(d0, tag, Append(DictGet(d0, tag),
                                    <<timestamp, global_step, scalar_value>>))]

\* add_scalar(tag, scalar_value, global_step, walltime)
SummaryWriter_add_scalar(sw, tag, global_step, walltime) ==
    LET s1 == GetFileWriter(sw)
    IN  Writer_add_summary(s1, Val(s1.file_writer), tag, global_step, walltime)

\* add_scalars(main_tag, tag_scalar_dict, global_step, walltime)
SummaryWriter_add_scalars(sw, main_tag, tags, global_step, walltime) ==
    LET wt == IF walltime = None THEN Some(sw.now) ELSE walltime
        s0 == GetFileWriter(sw)
        fw_logdir == s0.writers[Val(s0.file_writer)].logdir
        RECURSIVE EachTag(_, _)
        EachTag(s, ts) ==
            IF ts = <<>> THEN s
            ELSE LET fw_tag == fw_logdir \o <<main_tag, Head(ts)>>
                     known == DictHas(Val(s.all_writers), fw_tag)
                     s1 == IF known THEN s
                           ELSE LET n == NewWriter(s, "FileWriter", fw_tag)
                                IN  [n EXCEPT !.all_writers =
                                        Some(DictPut(Val(@), fw_tag, Newest(n)))]
                     fw == DictGet(Val(s1.all_writers), fw_tag)
                     s2 == Writer_add_summary(s1, fw, main_tag, global_step, wt)
                 IN  EachTag(AppendToScalarDict(s2, fw_tag, 1, global_step, Val(wt)),
                             Tail(ts))
    IN  EachTag(s0, tags)

\* SummaryWriter(logdir=dir, purge_step=ps, write_to_disk=wtd): __init__,
\* with the objects made so far
Construct(objects, dir, wtd, ps, clock) ==
    LET blank == [logdir |-> dir, write_to_disk |-> wtd, purge_step |-> ps,
                  kwargs |-> {}, file_writer |-> None, all_writers |-> None,
                  scalar_dict |-> <<>>, writers |-> objects, raised |-> "none",
                  now |-> clock, artifacts |-> {}, json_file |-> None]
    IN  [GetFileWriter(blank) EXCEPT !.scalar_dict = <<>>]

\* __exit__ of `with SummaryWriter(...) as w_hp`: closes w_hp
SummaryWriter_exit(w_hp) == SummaryWriter_close(w_hp)

\* add_hparams(hparam_dict, metric_dict); areDicts: both arguments are of
\* type dict; metrics: the keys of metric_dict
SummaryWriter_add_hparams(sw, areDicts, metrics) ==
    IF ~areDicts THEN [sw EXCEPT !.raised = "TypeError"]
    ELSE IF sw.file_writer = None
    THEN \* self.file_writer.get_logdir() on None
         [sw EXCEPT !.raised = "AttributeError"]
    ELSE LET dir == sw.writers[Val(sw.file_writer)].logdir \o <<"hparams">>
             \* SummaryWriter(logdir=dir): write_to_disk is left at True
             w0 == Construct(sw.writers, dir, TRUE, None, sw.now)
             w1 == Writer_add_summary(w0, Val(w0.file_writer), "exp", None, None)
             w2 == Writer_add_summary(w1, Val(w1.file_writer), "ssi", None, None)
             w3 == Writer_add_summary(w2, Val(w2.file_writer), "sei", None, None)
             RECURSIVE EachMetric(_, _)
             EachMetric(w, ms) ==
                 IF ms = <<>> THEN w
                 ELSE EachMetric(SummaryWriter_add_scalar(w, Head(ms), None, None),
                                 Tail(ms))
             w4 == SummaryWriter_exit(EachMetric(w3, metrics))
         IN  [sw EXCEPT !.writers = w4.writers]

\* json.dump(self.scalar_dict, f): the JSON object written, one member per
\* key, its value the list of [timestamp, step, value] lists
JsonDump(d) == [n \in 1..Len(d) |-> [writer_id |-> d[n].key, series |-> d[n].val]]

\* (mutant) export_scalars_to_json leaves scalar_dict as it is
SummaryWriter_export_scalars_to_jsonKeeps(sw, writable) ==
    IF ~writable THEN [sw EXCEPT !.raised = "OSError"]
    ELSE [sw EXCEPT !.json_file = Some(JsonDump(sw.scalar_dict))]

\* export_scalars_to_json(path); writable: open(path, "w") succeeds
SummaryWriter_export_scalars_to_json(sw, writable) ==
    IF ~writable THEN [sw EXCEPT !.raised = "OSError"]
    ELSE [sw EXCEPT !.json_file = Some(JsonDump(sw.scalar_dict)),
                    !.scalar_dict = <<>>]

\* the lengths of bucket_limits and bucket_counts the calls are made with
HistLens == {2, 3}

\* (mutant) add_histogram_raw obtains the writer before it tests the lengths
SummaryWriter_add_histogram_rawLate(sw, nlimits, ncounts, global_step, walltime) ==
    LET s1 == GetFileWriter(sw)
    IN  IF nlimits # ncounts THEN [s1 EXCEPT !.raised = "ValueError"]
        ELSE Writer_add_summary(s1, Val(s1.file_writer), "histo", global_step, walltime)

\* add_histogram_raw(tag, ..., bucket_limits, bucket_counts, global_step,
\* walltime); nlimits, ncounts: len(bucket_limits), len(bucket_counts)
SummaryWriter_add_histogram_raw(sw, nlimits, ncounts, global_step, walltime) ==
    IF nlimits # ncounts THEN [sw EXCEPT !.raised = "ValueError"]
    ELSE LET s1 == GetFileWriter(sw)
         IN  Writer_add_summary(s1, Val(s1.file_writer), "histo", global_step, walltime)

\* the arguments add_embedding is called with: mat has ndim dimensions and
\* rows = mat.shape[0]; metadata is None or has len items; label_img is None
\* or has shape (n, C, h, w)
Mat(ndim, rows) == [ndim |-> ndim, rows |-> rows]

Img(n, h, w) == [n |-> n, h |-> h, w |-> w]

EmbedArgs ==
    { [mat |-> Mat(2, 2), metadata |-> None, label_img |-> None],
      [mat |-> Mat(2, 2), metadata |-> Some(2), label_img |-> Some(Img(2, 1, 1))],
      [mat |-> Mat(2, 2), metadata |-> Some(1), label_img |-> None],
      [mat |-> Mat(2, 2), metadata |-> Some(2), label_img |-> Some(Img(1, 1, 1))],
      [mat |-> Mat(2, 2), metadata |-> None, label_img |-> Some(Img(2, 1, 2))],
      [mat |-> Mat(1, 2), metadata |-> Some(2), label_img |-> None] }

\* add_embedding(mat, metadata, label_img, global_step=None, tag='default'):
\* a failed assert leaves what was made before it
SummaryWriter_add_embedding(sw, a) ==
    LET subdir == <<"00000", "default">>
        s1 == GetFileWriter(sw)
        \* os.makedirs(save_path); an existing directory only prints a warning
        s2 == [s1 EXCEPT !.artifacts = @ \cup {subdir}]
        failed(s) == [s EXCEPT !.raised = "AssertionError"]
        s3 == IF a.metadata = None THEN s2
              ELSE IF a.mat.rows # Val(a.metadata) THEN failed(s2)
              ELSE [s2 EXCEPT !.artifacts = @ \cup {subdir \o <<"metadata.tsv">>}]
        s4 == IF s3.raised # "none" \/ a.label_img = None THEN s3
              ELSE IF a.mat.rows # Val(a.label_img).n THEN failed(s3)
              ELSE IF Val(a.label_img).h # Val(a.label_img).w THEN failed(s3)
              ELSE [s3 EXCEPT !.artifacts = @ \cup {subdir \o <<"sprite.png">>}]
        s5 == IF s4.raised # "none" THEN s4
              ELSE IF a.mat.ndim # 2 THEN failed(s4)
              ELSE [s4 EXCEPT !.artifacts = @ \cup {subdir \o <<"tensors.tsv">>}]
    IN  IF s5.raised # "none" THEN s5
        ELSE [GetFileWriter(s5) EXCEPT
                 !.artifacts = @ \cup {<<"projector_config.pbtxt">>}]

\* ------------------------------------------------------------------------
\* tensorboardX/writer.py : the calls made on one SummaryWriter
\* ------------------------------------------------------------------------

\* the state a call leaves, and the record of the call and its arguments
Returned(name, args, sw) ==
    /\ write_to_disk' = sw.write_to_disk
    /\ purge_step' = sw.purge_step
    /\ kwargs' = sw.kwargs
    /\ file_writer' = sw.file_writer
    /\ all_writers' = sw.all_writers
    /\ scalar_dict' = sw.scalar_dict
    /\ writers' = sw.writers
    /\ raised' = sw.raised
    /\ now' = now + 1
    /\ artifacts' = sw.artifacts
    /\ json_file' = sw.json_file
    /\ lastOp' = [name |-> name, args |-> args, before |-> Self]

\* a call that records no scalar and exports nothing
Returns(name, sw) ==
    /\ Returned(name, <<>>, sw)
    /\ UNCHANGED <<recorded, exports>>

Ready == [Self EXCEPT !.raised = "none"]

WriterInit ==
    \E wtd \in BOOLEAN, ps \in {None, Some(1)} :
        LET sw == Construct(<<>>, RunDir, wtd, ps, 0)
        IN  /\ write_to_disk = sw.write_to_disk
            /\ purge_step = sw.purge_step
            /\ kwargs = sw.kwargs
            /\ file_writer = sw.file_writer
            /\ all_writers = sw.all_writers
            /\ scalar_dict = sw.scalar_dict
            /\ writers = sw.writers
            /\ raised = sw.raised
            /\ now = 1
            /\ artifacts = sw.artifacts
            /\ json_file = sw.json_file
            /\ lastOp = [name |-> "__init__", args |-> <<>>, before |-> sw]
            /\ recorded = <<>>
            /\ exports = <<>>

AddScalar ==
    /\ now <= MaxOps
    /\ \E tag \in Tags, global_step \in StepArgs :
          Returns("add_scalar", SummaryWriter_add_scalar(Ready, tag, global_step, None))
    /\ UNCHANGED pvars

AddScalars ==
    /\ now <= MaxOps
    /\ \E tags \in TagDicts :
          /\ Returned("add_scalars", tags,
                      SummaryWriter_add_scalars(Ready, "m", tags, None, None))
          /\ recorded' = recorded \o
                [n \in 1..Len(tags) |->
                    [key |-> RunDir \o <<"m", tags[n]>>, entry |-> <<now, None, 1>>]]
          /\ UNCHANGED exports
    /\ UNCHANGED pvars

AddHparams ==
    /\ now <= MaxOps
    /\ \E areDicts \in BOOLEAN, metrics \in {<<>>, <<"acc">>} :
          Returns("add_hparams", SummaryWriter_add_hparams(Ready, areDicts, metrics))
    /\ UNCHANGED pvars

Flush ==
    /\ now <= MaxOps
    /\ Returns("flush", SummaryWriter_flush(Ready))
    /\ UNCHANGED pvars

Close ==
    /\ now <= MaxOps
    /\ Returns("close", SummaryWriter_close(Ready))
    /\ UNCHANGED pvars

AddHistogramRaw ==
    /\ now <= MaxOps
    /\ \E nlimits \in HistLens, ncounts \in HistLens :
          /\ Returned("add_histogram_raw", [limits |-> nlimits, counts |-> ncounts],
                      SummaryWriter_add_histogram_raw(Ready, nlimits, ncounts, None, None))
          /\ UNCHANGED <<recorded, exports>>
    /\ UNCHANGED pvars

AddEmbedding ==
    /\ now <= MaxOps
    /\ \E a \in EmbedArgs :
          /\ Returned("add_embedding", a, SummaryWriter_add_embedding(Ready, a))
          /\ UNCHANGED <<recorded, exports>>
    /\ UNCHANGED pvars

\* FileWriter(logdir): one FileWriter used on its own
FileWriterInit ==
    LET fw == NewWriter([logdir |-> RunDir, write_to_disk |-> TRUE,
                         purge_step |-> None, kwargs |-> {}, file_writer |-> None,
                         all_writers |-> None, scalar_dict |-> <<>>,
                         writers |-> <<>>, raised |-> "none", now |-> 0,
                         artifacts |-> {}, json_file |-> None],
                        "FileWriter", RunDir)
    IN  /\ write_to_disk = TRUE
        /\ purge_step = None
        /\ kwargs = {}
        /\ file_writer = None
        /\ all_writers = None
        /\ scalar_dict = <<>>
        /\ writers = fw.writers
        /\ raised = "none"
        /\ now = 1
        /\ artifacts = {}
        /\ json_file = None
        /\ lastOp = [name |-> "FileWriter", args |-> <<>>, before |-> fw]
        /\ recorded = <<>>
        /\ exports = <<>>

\* the arguments add_event and add_summary of the FileWriter are called with
EventSteps == {7}                                   \* event.step

FileWriterSteps == { None, Whole(0), Some(-3) }     \* None, 0, -1.5

Walltimes == { None, Some(0) }

FileWriterAddEvent ==
    /\ now <= MaxOps
    /\ \E es \in EventSteps, step \in FileWriterSteps, walltime \in Walltimes :
          /\ Returned("FileWriter.add_event",
                      [event |-> Event("e", es), step |-> step, walltime |-> walltime],
                      Writer_add_event(Ready, 1, Event("e", es), step, walltime))
          /\ UNCHANGED <<recorded, exports>>
    /\ UNCHANGED pvars

FileWriterAddSummary ==
    /\ now <= MaxOps
    /\ \E global_step \in FileWriterSteps, walltime \in Walltimes :
          /\ Returned("FileWriter.add_summary",
                      [event |-> Event("s", 0), step |-> global_step,
                       walltime |-> walltime],
                      Writer_add_summary(Ready, 1, "s", global_step, walltime))
          /\ UNCHANGED <<recorded, exports>>
    /\ UNCHANGED pvars

ExportScalarsToJson ==
    /\ now <= MaxOps
    /\ \E writable \in BOOLEAN :
          /\ Returned("export_scalars_to_json", writable,
                      SummaryWriter_export_scalars_to_json(Ready, writable))
          /\ exports' = IF writable THEN Append(exports, Len(recorded)) ELSE exports
          /\ UNCHANGED recorded
    /\ UNCHANGED pvars

\* the patcher is not running
PatchIdle ==
    /\ disk = <<>>
    /\ pc = "idle"
    /\ text = <<>>
    /\ rep = FALSE
    /\ pfx = 0
    /\ subject = 0
    /\ amnt = 0
    /\ i = 0
    /\ k = Unbound
    /\ err = "none"
    /\ orig = <<>>
    /\ visited = <<>>
    /\ marks = <<>>
    /\ last = NoIteration
    /\ outs = <<>>
    /\ later = <<>>

\* no SummaryWriter has been constructed
WriterIdle ==
    /\ write_to_disk = TRUE
    /\ purge_step = None
    /\ kwargs = {}
    /\ file_writer = None
    /\ all_writers = None
    /\ scalar_dict = <<>>
    /\ writers = <<>>
    /\ raised = "none"
    /\ now = 0
    /\ artifacts = {}
    /\ json_file = None
    /\ lastOp = [name |-> "none", args |-> <<>>, before |-> Self]
    /\ recorded = <<>>
    /\ exports = <<>>

\* ------------------------------------------------------------------------
\* Specifications
\* ------------------------------------------------------------------------

\* the patcher run over one file
Init == PatchInit /\ WriterIdle

Next ==
    \/ ReadFile
    \/ ReadFails
    \/ BeginPrefix
    \/ PatchOccurrence
    \/ EndPrefix
    \/ Rename
    \/ WriteFile
    \/ WriteFails
    \/ RunAgain

Spec == Init /\ [][Next]_vars

\* one SummaryWriter and the calls made on it
InitWriter == WriterInit /\ PatchIdle

NextWriter ==
    \/ AddScalar
    \/ AddScalars
    \/ AddHparams
    \/ Flush
    \/ Close

SpecWriter == InitWriter /\ [][NextWriter]_vars

\* one SummaryWriter and the calls that test their arguments
NextFacade ==
    \/ AddHistogramRaw
    \/ AddEmbedding
    \/ Close

SpecFacade == InitWriter /\ [][NextFacade]_vars

\* one FileWriter and the calls made on it
InitFileWriter == FileWriterInit /\ PatchIdle

NextFileWriter ==
    \/ FileWriterAddEvent
    \/ FileWriterAddSummary

SpecFileWriter == InitFileWriter /\ [][NextFileWriter]_vars

\* one SummaryWriter, the scalars recorded on it and their export
NextExport ==
    \/ AddScalar
    \/ AddScalars
    \/ ExportScalarsToJson
    \/ Close

SpecExport == InitWriter /\ [][NextExport]_vars

\* one run of the script over a tree of several files
InitFiles == FilesInit /\ WriterIdle

NextFiles ==
    \/ ReadFile
    \/ BeginPrefix
    \/ PatchOccurrence
    \/ EndPrefix
    \/ Rename
    \/ WriteFile
    \/ NextFile

SpecFiles == InitFiles /\ [][NextFiles]_vars

\* ------------------------------------------------------------------------
\* converttpu.py : what a text says about its calls, stated without the scan
\* ------------------------------------------------------------------------

NOpenIn(T, a, b) == Cardinality({x \in a..b : T[x + 1] = "("})

NCloseIn(T, a, b) == Cardinality({x \in a..b : T[x + 1] = ")"})

\* the offset of the close-parenthesis that bracket-matches the
\* open-parenthesis at offset open: the first `)` after it with as many `(`
\* as `)` in between; NotFound when there is none
MatchOf(T, open) ==
    LET cs == {j \in (open + 1)..(Len(T) - 1) :
                  /\ T[j + 1] = ")"
                  /\ NOpenIn(T, open + 1, j - 1) = NCloseIn(T, open + 1, j - 1)}
    IN  IF cs = {} THEN NotFound ELSE MinOf(cs)

\* the literal that opens a call to the p-th target name: `.view(`, `.reshape(`
CallLiteral(p) == <<".">> \o prefixes[p] \o <<"(">>

\* the target name followed by `(`, whatever precedes it: `view(`, `reshape(`
NameLiteral(p) == prefixes[p] \o <<"(">>

\* <<offset, p>> for every place where sub(p) occurs in T
Places(T, sub(_)) ==
    {op \in (0..Len(T)) \X (1..Len(prefixes)) : OccursAt(T, sub(op[2]), op[1])}

\* the offsets of the opening parentheses of the calls `.view(`, `.reshape(`
Sites(T) == {op[1] + Len(CallLiteral(op[2])) - 1 : op \in Places(T, CallLiteral)}

\* the elements of a finite set of numbers, in increasing order
RECURSIVE Ascending(_)
Ascending(S) ==
    IF S = {} THEN <<>> ELSE <<MinOf(S)>> \o Ascending(S \ {MinOf(S)})

\* the offsets of the pivots this run has found for the p-th target name
VisitedOf(p) ==
    LET vs == SelectSeq(visited, LAMBDA v : v.p = p)
    IN  [n \in 1..Len(vs) |-> vs[n].at]

\* the offsets at which pivot occurs in T
Occurrences(T, pivot) == {o \in 0..Len(T) : OccursAt(T, pivot, o)}

\* some call of T has no matching close-parenthesis
HasUnmatchedCall(T) == \E s \in Sites(T) : MatchOf(T, s) = NotFound

\* every call of T is closed, none lies in the argument list of another and
\* none is followed by the marker
TopLevelUnmarked(T) ==
    /\ ~HasUnmatchedCall(T)
    /\ \A s, t \in Sites(T) : ~(s < t /\ t < MatchOf(T, s))
    /\ \A s \in Sites(T) : ~OccursAt(T, insert, MatchOf(T, s) + 1)

\* T with the marker put in front of the character at each offset of P
RECURSIVE WithMarkersFrom(_, _, _)
WithMarkersFrom(T, P, j) ==
    IF j > Len(T) THEN <<>>
    ELSE (IF j \in P THEN insert ELSE <<>>)
         \o (IF j < Len(T) THEN <<T[j + 1]>> ELSE <<>>)
         \o WithMarkersFrom(T, P, j + 1)

WithMarkers(T, P) == WithMarkersFrom(T, P, 0)

\* ------------------------------------------------------------------------
\* converttpu.py : claims
\* ------------------------------------------------------------------------

\* C1: on a text whose N calls to the target names are all closed, top-level
\* and not yet followed by the marker, a run makes exactly N insertions, and
\* the text it writes is the text read with the marker right after the
\* matching close-parenthesis of each call (and `.view(` renamed).
C1_MarkerAfterEachCall ==
    (pc = "done" /\ TopLevelUnmarked(orig)) =>
        /\ Len(marks) = Cardinality(Sites(orig))
        /\ disk = FinalReplace(
                    WithMarkers(orig, {MatchOf(orig, s) + 1 : s \in Sites(orig)}))

C1_Witness ==
    /\ pc = "done"
    /\ TopLevelUnmarked(orig)
    /\ Cardinality(Sites(orig)) = 2
    /\ Len(marks) = 2

\* C2: running the script a second time over its own output changes nothing.
C2_Idempotent == Len(outs) >= 2 => outs[2] = outs[1]

\* C3: whenever the call has a matching close-parenthesis, the scan ends on
\* it: the insertion offset is the offset right after the first `)` at which
\* the depth is back to 0, not after one that closes an inner expression.
C3_ScanEndsAtMatchingClose ==
    (last.open >= 0 /\ MatchOf(last.before, last.open) # NotFound) =>
        last.idx = MatchOf(last.before, last.open) + 1

\* a call whose argument list is nested 3 deep was scanned to its own `)`
C3_Witness ==
    /\ last.open >= 0
    /\ MatchOf(last.before, last.open) # NotFound
    /\ last.idx = MatchOf(last.before, last.open) + 1
    /\ \E x \in (last.open + 1)..(last.idx - 2) :
          NOpenIn(last.before, last.open + 1, x)
              >= NCloseIn(last.before, last.open + 1, x) + 2

\* C4: a run over a text with a target call that is never closed does not
\* complete: it ends in an error instead of writing a text.
C4_UnmatchedCallRaises == pc = "done" => ~HasUnmatchedCall(orig)

\* C5: the text a run writes holds no `.view(`.
C5_NoViewLeft ==
    /\ pc = "write" => Occurrences(text, CallLiteral(1)) = {}
    /\ pc = "done" => Occurrences(disk, CallLiteral(1)) = {}

C5_Witness ==
    /\ pc = "done"
    /\ Cardinality(Occurrences(orig, CallLiteral(1))) >= 2
    /\ Occurrences(disk, CallLiteral(1)) = {}

\* C6: within the pass for one target name the pivots found so far are the
\* first occurrences of that name's call literal in the text as it is now, in
\* increasing order and each once; when the pass ends they are all of them.
C6_EachOccurrenceOnceInOrder ==
    pc \in {"occ", "crashed"} =>
        LET occ == Ascending(Occurrences(text, CallLiteral(pfx)))
            got == VisitedOf(pfx)
        IN  /\ Len(got) <= Len(occ)
            /\ got = SubSeq(occ, 1, Len(got))
            /\ (pc = "occ" /\ i >= amnt) => Len(got) = Len(occ)

C6_Witness ==
    /\ pc = "occ"
    /\ i >= amnt
    /\ Len(VisitedOf(pfx)) = 2
    /\ Len(marks) >= 2
    /\ VisitedOf(pfx)[2] < marks[1]

\* C7 as claimed: every `view(` and `reshape(` of the text read is matched
\* as a call-site, whatever precedes the name.
C7_SuffixIsMatched ==
    pc = "replace" => Len(visited) = Cardinality(Places(orig, NameLiteral))

\* C7 as amended: a target name is matched only where a `.` precedes it; a
\* text in which the names occur only as the end of longer identifiers is
\* written back as it was read.
C7_OnlyDottedNameIsMatched ==
    /\ pc = "replace" => Len(visited) = Cardinality(Places(orig, CallLiteral))
    /\ (pc = "done" /\ Places(orig, CallLiteral) = {}) => disk = orig

C7_Witness ==
    /\ pc = "done"
    /\ Places(orig, CallLiteral) = {}
    /\ \E op \in Places(orig, NameLiteral) :
          MatchOf(orig, op[1] + Len(NameLiteral(op[2])) - 1) # NotFound
    /\ disk = orig

\* ------------------------------------------------------------------------
\* tensorboardX/writer.py : claims
\* ------------------------------------------------------------------------

\* the writers the SummaryWriter itself has made (not those of a nested one)
OwnWriters == {n \in 1..Len(writers) : writers[n].by = RunDir}

\* the SummaryWriter is closed
IsClosed(sw) == sw.file_writer = None /\ sw.all_writers = None

\* C8: when close() returns, every writer the SummaryWriter has made was
\* flushed and then closed, and the SummaryWriter is closed.
C8_CloseReleasesEveryWriter ==
    lastOp.name = "close" =>
        /\ IsClosed(Self)
        /\ \A n \in OwnWriters :
              LET c == writers[n].calls
              IN  /\ Len(c) >= 2
                  /\ c[Len(c) - 1] = "flush"
                  /\ c[Len(c)] = "close"

\* C9: close() and flush() on a closed SummaryWriter call no method of any
\* writer, make no writer, and leave file_writer, all_writers and
\* scalar_dict as they were.
C9_ClosedCloseFlushNoOp ==
    (lastOp.name \in {"close", "flush"} /\ lastOp.before.all_writers = None) =>
        /\ writers = lastOp.before.writers
        /\ file_writer = lastOp.before.file_writer
        /\ all_writers = lastOp.before.all_writers
        /\ scalar_dict = lastOp.before.scalar_dict
        /\ IsClosed(Self)

C9_Witness ==
    /\ lastOp.name \in {"close", "flush"}
    /\ lastOp.before.all_writers = None
    /\ scalar_dict # <<>>
    /\ \E n \in OwnWriters : writers[n].closed

\* C10: a SummaryWriter constructed with write_to_disk=False never makes a
\* FileWriter: every writer made is a DummyFileWriter.
C10_NoFileWriterWhenNotToDisk ==
    ~write_to_disk =>
        \A n \in 1..Len(writers) : writers[n].kind = "DummyFileWriter"

\* the default event files the SummaryWriter itself has opened
DefaultFileWriters ==
    {n \in OwnWriters : writers[n].kind = "FileWriter" /\ writers[n].logdir = RunDir}

\* C11: with purge_step=T every default event file the writer opens starts
\* with a file_version event and a SessionLog START event, both of step T.
C11_PurgeEventsComeFirst ==
    purge_step # None =>
        \A n \in DefaultFileWriters :
            LET ev == writers[n].events
            IN  /\ Len(ev) >= 2
                /\ ev[1].what = "file_version" /\ ev[1].step = Val(purge_step)
                /\ ev[2].what = "session_log" /\ ev[2].step = Val(purge_step)

\* C12: a recording call on a closed SummaryWriter makes exactly one writer,
\* a FileWriter on the logdir, which becomes file_writer and the only entry
\* of all_writers; on an open one it makes none and file_writer stays.
C12_RecreatedExactlyWhenClosed ==
    lastOp.name = "add_scalar" =>
        IF IsClosed(lastOp.before)
        THEN /\ Len(writers) = Len(lastOp.before.writers) + 1
             /\ writers[Len(writers)].kind = "FileWriter"
             /\ writers[Len(writers)].logdir = RunDir
             /\ file_writer = Some(Len(writers))
             /\ all_writers = Some(<<[key |-> RunDir, val |-> Len(writers)]>>)
        ELSE /\ Len(writers) = Len(lastOp.before.writers)
             /\ file_writer = lastOp.before.file_writer

\* what a call may change of the SummaryWriter, its writers and its files
Untouched ==
    /\ writers = lastOp.before.writers
    /\ file_writer = lastOp.before.file_writer
    /\ all_writers = lastOp.before.all_writers
    /\ scalar_dict = lastOp.before.scalar_dict
    /\ kwargs = lastOp.before.kwargs
    /\ artifacts = lastOp.before.artifacts
    /\ json_file = lastOp.before.json_file

\* C13: add_histogram_raw with len(bucket_limits) # len(bucket_counts) raises
\* ValueError; no writer receives an event, none is made (a closed
\* SummaryWriter stays closed) and the state is as before the call.
C13_MismatchRaisesBeforeAnyEffect ==
    (lastOp.name = "add_histogram_raw" /\ lastOp.args.limits # lastOp.args.counts) =>
        /\ raised = "ValueError"
        /\ Untouched

C13_Witness ==
    /\ lastOp.name = "add_histogram_raw"
    /\ lastOp.args.limits # lastOp.args.counts
    /\ IsClosed(lastOp.before)
    /\ Len(writers) > 0
    /\ raised = "ValueError"

\* the precondition of add_embedding that the arguments a violate
ViolatesEmbedding(a) ==
    \/ a.metadata # None /\ Val(a.metadata) # a.mat.rows
    \/ a.label_img # None /\ Val(a.label_img).n # a.mat.rows
    \/ a.label_img # None /\ Val(a.label_img).h # Val(a.label_img).w
    \/ a.mat.ndim # 2

\* C14: add_embedding with a violated precondition raises before any side
\* effect: no directory or file has been made and no writer recreated.
C14_EmbeddingRaisesBeforeAnyEffect ==
    (lastOp.name = "add_embedding" /\ ViolatesEmbedding(lastOp.args)) =>
        /\ raised = "AssertionError"
        /\ Untouched

\* the whole number that x halves come to when the fraction is dropped
Truncated(x) ==
    CHOOSE n \in -(x * x)..(x * x) :
        IF x >= 0 THEN 2 * n <= x /\ x < 2 * n + 2
                  ELSE 2 * n - 2 < x /\ x <= 2 * n

\* C15: add_event and add_summary of the FileWriter forward exactly one
\* event per call; its wall_time is the walltime given (0 included), else the
\* current time; its step is int(step) when step is not None (0 included),
\* else the step the event already had.
C15_OneEventWithStepAndWalltime ==
    lastOp.name \in {"FileWriter.add_event", "FileWriter.add_summary"} =>
        LET a == lastOp.args
            old == lastOp.before.writers[1].events
            ev == writers[1].events
            e == ev[Len(ev)]
        IN  /\ Len(ev) = Len(old) + 1
            /\ SubSeq(ev, 1, Len(old)) = old
            /\ e.what = a.event.what
            /\ e.wall_time = IF a.walltime = None THEN lastOp.before.now
                             ELSE Val(a.walltime)
            /\ e.step = IF a.step = None THEN a.event.step
                        ELSE Truncated(Val(a.step))

C15_Witness ==
    /\ lastOp.name = "FileWriter.add_event"
    /\ lastOp.args.step = Some(0)
    /\ lastOp.args.event.step # 0
    /\ lastOp.args.walltime = Some(0)
    /\ Len(writers[1].events) > 1
    /\ writers[1].events[Len(writers[1].events)].step = 0
    /\ \E n \in 1..Len(writers[1].events) : writers[1].events[n].step = -1

\* the scalars add_scalars recorded after the from-th one up to the to-th one
RecordedBetween(from, to) == SubSeq(recorded, from + 1, to)

\* the number of scalars recorded when the n-th export was made; 0 for n = 0
ExportedUpTo(n) == IF n = 0 THEN 0 ELSE exports[n]

\* the JSON object j has one member per writer_id of the scalars rec, and
\* its series is their entries for that writer_id, in order
HoldsExactly(j, rec) ==
    LET Of(id) == SelectSeq(rec, LAMBDA r : r.key = id)
    IN  /\ {j[n].writer_id : n \in 1..Len(j)} = {rec[n].key : n \in 1..Len(rec)}
        /\ \A n, m \in 1..Len(j) : j[n].writer_id = j[m].writer_id => n = m
        /\ \A n \in 1..Len(j) :
              j[n].series = [x \in 1..Len(Of(j[n].writer_id)) |->
                                Of(j[n].writer_id)[x].entry]

RECURSIVE OccurrenceLoop(_, _, _, _, _)
OccurrenceLoop(T, p, subj0, k0, n) ==
    LET pivot == Pivot(prefixes[p])
        found == NextOccurrence(T, pivot, subj0)
        subj  == found + Len(pivot)
        kNew  == DepthScan(T, subj, k0)
        insert_idx == subj + kNew + 1
    IN  IF n = 0 THEN [text |-> T, k |-> k0, err |-> "none"]
        ELSE IF found = NotFound THEN [text |-> T, k |-> k0, err |-> "ValueError"]
        ELSE IF kNew = Unbound THEN [text |-> T, k |-> k0, err |-> "NameError"]
        ELSE OccurrenceLoop(IF MarkerProbe(T, insert_idx) # insert_idx
                            THEN InsertMarker(T, insert_idx) ELSE T,
                            p, subj, kNew, n - 1)

\* the loop body run on a file of content T, with k0 the value of k on entry
RECURSIVE PrefixLoop(_, _, _)
PrefixLoop(T, p, k0) ==
    IF p > Len(prefixes) THEN [text |-> FinalReplace(T), k |-> k0, err |-> "none"]
    ELSE LET r == OccurrenceLoop(T, p, 0, k0, StrCount(T, Pivot(prefixes[p])))
         IN  IF r.err # "none" THEN r ELSE PrefixLoop(r.text, p + 1, r.k)

\* the outcome for a file processed on its own: no name is bound on entry
Alone(T) == PrefixLoop(T, 1, Unbound)

\* C17: the outcome for a file, the text written or the failure, is that of
\* the file processed on its own, whichever files the run processed before.
C17_OutcomeIsThatOfFileAlone ==
    /\ pc = "done" => Alone(orig).err = "none" /\ disk = Alone(orig).text
    /\ pc = "crashed" => Alone(orig).err = err

\* T with every `.view(` spelled `.reshape(`, character by character
RECURSIVE ViewRenamedFrom(_, _)
ViewRenamedFrom(T, j) ==
    IF j >= Len(T) THEN <<>>
    ELSE IF OccursAt(T, CallLiteral(1), j)
    THEN CallLiteral(2) \o ViewRenamedFrom(T, j + Len(CallLiteral(1)))
    ELSE <<T[j + 1]>> \o ViewRenamedFrom(T, j + 1)

ViewRenamed(T) == ViewRenamedFrom(T, 0)

\* C18: the text written has every `.view(` renamed whatever the value of
\* rep: with no marker inserted (rep is False) it is the text read with
\* `.view(` renamed, and with rep True no `.view(` is left either.
C18_RenamedWhateverRep ==
    pc = "done" =>
        /\ ~rep => disk = ViewRenamed(orig)
        /\ rep => Occurrences(disk, CallLiteral(1)) = {}

C18_Witness ==
    /\ pc = "done"
    /\ ~rep
    /\ Occurrences(orig, CallLiteral(1)) # {}
    /\ disk # orig

\* C19: until the write step the file on disk is as the run found it; a run
\* that ends in a failure of the read or of the transform leaves it so. Only
\* a failure of the write step can leave it partially rewritten.
C19_OnlyWriteFailureTouchesFile ==
    /\ pc \in {"prefix", "occ", "replace", "write", "crashed"} => disk = orig
    /\ (pc = "ioerror" /\ err # "WriteError") => disk = orig

C19_Witness ==
    /\ pc = "crashed"
    /\ err \in {"NameError", "ValueError"}
    /\ disk = orig
    /\ disk # <<>>
    /\ visited # <<>>

\* T without the copies of the marker that start at the offsets of Q
RECURSIVE WithoutFrom(_, _, _)
WithoutFrom(T, Q, j) ==
    IF j >= Len(T) THEN <<>>
    ELSE IF j \in Q THEN WithoutFrom(T, Q, j + Len(insert))
    ELSE <<T[j + 1]>> \o WithoutFrom(T, Q, j + 1)

Without(T, Q) == WithoutFrom(T, Q, 0)

\* C20: the text written is the text read with `.view(` renamed and with as
\* many copies of the marker put in as the run made insertions: deleting
\* those copies from it gives the text read with `.view(` renamed.
C20_OnlyMarkersAndRenaming ==
    pc = "done" =>
        \E Q \in SUBSET Occurrences(disk, insert) :
            /\ Cardinality(Q) = Len(marks)
            /\ Without(disk, Q) = ViewRenamed(orig)

C20_Witness ==
    /\ pc = "done"
    /\ Len(marks) = 2
    /\ Occurrences(orig, insert) # {}
    /\ Occurrences(orig, CallLiteral(1)) # {}
    /\ Cardinality(Occurrences(disk, insert)) = 3

\* C21: after construction and after every call, file_writer and all_writers
\* are both None or both set, and when they are set all_writers maps the
\* logdir of file_writer to file_writer itself.
C21_FileWriterAndAllWritersAgree ==
    /\ file_writer = None <=> all_writers = None
    /\ file_writer # None =>
          LET dir == writers[Val(file_writer)].logdir
          IN  /\ DictHas(Val(all_writers), dir)
              /\ DictGet(Val(all_writers), dir) = Val(file_writer)

C21_Witness ==
    /\ lastOp.name = "add_scalars"
    /\ lastOp.before.file_writer = None
    /\ lastOp.before.all_writers = None
    /\ file_writer # None
    /\ Len(Val(all_writers)) = 3

\* the calls that record something
RecordingCalls == {"add_scalar", "add_scalars", "add_hparams"}

\* C22: no call ever dereferences file_writer while it is None, and a
\* recording call that returns, on a closed SummaryWriter too, leaves the
\* default writer in place.
C22_RecordingWorksAfterClose ==
    /\ raised # "AttributeError"
    /\ (lastOp.name \in RecordingCalls /\ raised = "none") => file_writer # None

====
